---- MODULE Spec2Model ----
(***************************************************************************)
(* Model of unshredder.py: an image is split into 32 pixel wide Shreds,    *)
(* every Shred gets the averaged stripe of its 4 leftmost and 4 rightmost  *)
(* columns, and unshred() greedily grows a deque of Shreds by attaching,   *)
(* at either end, the remaining Shred whose stripe scores lowest.          *)
(*                                                                         *)
(* Conventions.  A Python list is a sequence (list index y is sequence     *)
(* position y + 1).  A dict is a function, its keys are its DOMAIN.  A     *)
(* Shred object is a record; its field id stands for the object's identity *)
(* (two Shreds with equal pixels are still two objects).  The script is    *)
(* Python 2 (print statement, line 66), so int / int is floor division.    *)
(***************************************************************************)
EXTENDS Integers, Sequences, FiniteSets, TLC

VARIABLES
    pc,        \* position of main(): "open", "split", "loop", "done", "error"
    image,     \* the opened input image (main, line 160)
    input,     \* the dict as split returned it, before unshred changes it
    scram,     \* shreds_dict / scram: key -> Shred, mutated by unshred
    unscram,   \* the deque built by unshred
    match,     \* (key, side) last returned by best_match; <<>> before
    steps,     \* number of iterations of the while loop of unshred so far
    run2,      \* a second call of unshred on the same input
    stripe1,   \* arguments and result of a direct call of score
    stripe2,
    scr

vars == <<pc, image, input, scram, unscram, match, steps, run2, stripe1, stripe2, scr>>

\* ------------------------------------------------------------------ bounds
MaxShreds == 4     \* the input image is at most MaxShreds shreds wide
MaxHeight == 1     \* image heights 1..MaxHeight
MaxLen == 2        \* stripes handed directly to score have length 0..MaxLen

\* ------------------------------------------------------- program constants
shred_width == 32  \* split, line 75
num_pixels == 4    \* Shred.__init__, lines 25-26

\* ----------------------------------------------------------------- helpers
Min(a, b) == IF a <= b THEN a ELSE b

Abs(a) == IF a >= 0 THEN a ELSE -a

RECURSIVE SumTo(_, _)
\* f[1] + ... + f[n]
SumTo(f, n) == IF n = 0 THEN 0 ELSE f[n] + SumTo(f, n - 1)

\* range(0, n, step)
Range(n, step) == {x \in 0..(n - 1) : x % step = 0}

\* ---------------------------------------------------------- pixel grids
\* An image is a window on the pixels of a decoded file: size is its
\* (width, height), content names the file's pixels (see PixelAt), off is
\* where its pixel (0, 0) lies in the file, and lim is where the decoded
\* pixels end: PIL fills a crop box that overhangs its source with zeros.
ZeroPixel == <<0, 0, 0, 0>>

\* the pixel (x, y) of the decoded file of content kinds: block x / 32 of the
\* file is of kind kinds[..]; a block of kind k shades from level k (left
\* half) to level k + 1 (right half), so that the right edge of kind k
\* continues into the left edge of kind k + 1; odd columns are one unit
\* brighter in red.
PixelAt(kinds, x, y) ==
    LET c     == x % 32
        level == kinds[(x \div 32) + 1] + (IF c >= 16 THEN 1 ELSE 0)
    IN  <<16 * level + (c % 2), 255 - 16 * level, y, 128>>

\* data[x, y] of image.load()
Px(img, x, y) ==
    IF img.off[1] + x < img.lim[1] /\ img.off[2] + y < img.lim[2]
    THEN PixelAt(img.content, img.off[1] + x, img.off[2] + y)
    ELSE ZeroPixel

\* Image.crop(box), box = (x0, y0, x1, y1): the result has the size of the
\* box, whatever the size of the source.
crop(img, box) ==
    [size    |-> <<box[3] - box[1], box[4] - box[2]>>,
     content |-> img.content,
     off     |-> <<img.off[1] + box[1], img.off[2] + box[2]>>,
     lim     |-> <<Min(img.lim[1], img.off[1] + img.size[1]),
                   Min(img.lim[2], img.off[2] + img.size[2])>>]

\* ------------------------------------------------------------------ Shred
\* Shred._column(x): the pixels data[x, y] for y in range(height)
_column(img, x) == [y \in 1..img.size[2] |-> Px(img, x, y - 1)]

\* Shred._stripe(start_pixel, num_pixels)
_stripe(img, start_pixel, n_pixels) ==
    LET cols == [n \in 1..n_pixels |-> _column(img, start_pixel + n - 1)]
        \* zip(*cols): as long as the shortest column, no row without columns
        rows == IF n_pixels = 0 THEN 0 ELSE img.size[2]
        col_count == n_pixels
        chan(y, c) == SumTo([n \in 1..n_pixels |-> cols[n][y][c]], n_pixels)
    IN  [y \in 1..rows |->
            \* float(r/col_count): the int quotient, then made a float
            <<chan(y, 1) \div col_count, chan(y, 2) \div col_count,
              chan(y, 3) \div col_count, 255>>]

\* Shred(image); id is the identity of the object made
Shred(img, id) ==
    [id           |-> id,
     image        |-> img,
     width        |-> img.size[1],
     height       |-> img.size[2],
     left_stripe  |-> _stripe(img, 0, num_pixels),
     right_stripe |-> _stripe(img, img.size[1] - num_pixels, num_pixels)]

\* split(image): dict of Shreds keyed by leftmost x coordinate
split(img) ==
    [x \in Range(img.size[1], shred_width) |->
        Shred(crop(img, <<x, 0, shred_width + x, img.size[2]>>), x)]

\* ------------------------------------------------------------------ score
\* score(stripe1, stripe2): zip stops at the shorter of the two stripes
score(s1, s2) ==
    LET n == Min(Len(s1), Len(s2))
        d(i) == Abs(s1[i][1] - s2[i][1]) + Abs(s1[i][2] - s2[i][2])
                + Abs(s1[i][3] - s2[i][3])
    IN  SumTo([i \in 1..n |-> d(i)], n)

\* ------------------------------------------------------------- best_match
\* scores that compare each edge with the same side of the candidate
Scores_same_side(un, sc) ==
    LET leftmost  == un[1].left_stripe
        rightmost == un[Len(un)].right_stripe
    IN  [c \in (DOMAIN sc) \X {"left", "right"} |->
            IF c[2] = "left" THEN score(leftmost, sc[c[1]].left_stripe)
                             ELSE score(rightmost, sc[c[1]].right_stripe)]

\* the scores dict of best_match, lines 116-121: (key, side) -> score
Scores(un, sc) ==
    LET leftmost  == un[1].left_stripe
        rightmost == un[Len(un)].right_stripe
    IN  [c \in (DOMAIN sc) \X {"left", "right"} |->
            IF c[2] = "left" THEN score(leftmost, sc[c[1]].right_stripe)
                             ELSE score(rightmost, sc[c[1]].left_stripe)]

\* the candidates of one side only
best_match_right_only(un, sc) ==
    LET scores == Scores(un, sc)
    IN  {c \in DOMAIN scores : c[2] = "right" /\
            \A d \in DOMAIN scores : d[2] = "right" => scores[c] <= scores[d]}

\* best_match(unscram, scram): min(scores, key=scores.get) returns the first
\* key of least score in the iteration order of the dict, an order the script
\* does not fix; the result is any one of the keys of least score.
best_match(un, sc) ==
    LET scores == Scores(un, sc)
    IN  {c \in DOMAIN scores : \A d \in DOMAIN scores : scores[c] <= scores[d]}

\* ---------------------------------------------------------------- unshred
\* del d[k]
Del(d, k) == [x \in (DOMAIN d) \ {k} |-> d[x]]

\* an entry that hands back an empty deque when there is no Shred
unshred_enter_silent(sc) ==
    IF 0 \in DOMAIN sc
    THEN [pc |-> "loop", unscram |-> <<sc[0]>>, scram |-> Del(sc, 0)]
    ELSE [pc |-> "done", unscram |-> <<>>, scram |-> sc]

\* an entry that leaves the seed in the dict
unshred_enter_keeps_seed(sc) ==
    IF 0 \in DOMAIN sc
    THEN [pc |-> "loop", unscram |-> <<sc[0]>>, scram |-> sc]
    ELSE [pc |-> "error", unscram |-> <<>>, scram |-> sc]

\* unshred, lines 135-137: scram[0] raises KeyError when key 0 is missing
unshred_enter(sc) ==
    IF 0 \in DOMAIN sc
    THEN [pc |-> "loop", unscram |-> <<sc[0]>>, scram |-> Del(sc, 0)]
    ELSE [pc |-> "error", unscram |-> <<>>, scram |-> sc]

\* a loop body that never deletes the Shred it placed
unshred_body_no_del(un, sc, m) ==
    [unscram |-> IF m[2] = "left" THEN <<sc[m[1]]>> \o un
                 ELSE IF m[2] = "right" THEN Append(un, sc[m[1]]) ELSE un,
     scram   |-> sc]

\* a loop body that attaches at the wrong end
unshred_body_wrong_end(un, sc, m) ==
    [unscram |-> IF m[2] = "left" THEN Append(un, sc[m[1]])
                 ELSE IF m[2] = "right" THEN <<sc[m[1]]>> \o un ELSE un,
     scram   |-> Del(sc, m[1])]

\* unshred, lines 140-144, with (key, side) = m
unshred_body(un, sc, m) ==
    [unscram |-> IF m[2] = "left" THEN <<sc[m[1]]>> \o un
                 ELSE IF m[2] = "right" THEN Append(un, sc[m[1]]) ELSE un,
     scram   |-> Del(sc, m[1])]

\* ------------------------------------------------------------ input images
\* The images main() is run on: n blocks of shred_width columns, block i of
\* kind kinds[i], the last `cut` columns of the last block missing.
MakeImage(kinds, h, cut) ==
    LET w == Len(kinds) * shred_width - cut
    IN  [size |-> <<w, h>>, content |-> kinds, off |-> <<0, 0>>, lim |-> <<w, h>>]

\* the kinds of block the input images are made of
Kinds == 0..3

\* shredded images: every sequence of 1..MaxShreds blocks, whole
ShreddedImages ==
    {MakeImage(kinds, h, 0) :
        kinds \in UNION {[1..n -> Kinds] : n \in 1..MaxShreds}, h \in 1..MaxHeight}

\* images whose width is no multiple of shred_width: blocks of kinds 0, 1, 2,
\* ... in this order, the last one cut short by 1..shred_width - 1 columns
RaggedImages ==
    {MakeImage([i \in 1..n |-> i - 1], 1, cut) :
        n \in 1..MaxShreds, cut \in 1..(shred_width - 1)}

\* images of no width
EmptyImages == {MakeImage(<<>>, h, 0) : h \in 1..MaxHeight}

Images == ShreddedImages \cup RaggedImages \cup EmptyImages

\* rows of an edge signature handed directly to score
StripeRows == {<<0, 0, 0, 255>>, <<3, 1, 2, 255>>, <<7, 250, 40, 255>>}

Stripes == UNION {[1..n -> StripeRows] : n \in 0..MaxLen}

NoCall == [kind |-> "none", value |-> 0]

Idle == [pc |-> "idle", scram |-> <<>>, unscram |-> <<>>]

\* ------------------------------------------------------------ main()
\* main() about to run on one of the images imgs
InitOn(imgs) ==
    /\ pc = "open"
    /\ image \in imgs
    /\ input = <<>>
    /\ scram = <<>>
    /\ unscram = <<>>
    /\ match = <<>>
    /\ steps = 0
    /\ run2 = Idle
    /\ stripe1 = <<>>
    /\ stripe2 = <<>>
    /\ scr = NoCall

Init == InitOn(Images)

\* main, line 161: shreds = split(shredded)
Split ==
    /\ pc = "open"
    /\ scram' = split(image)
    /\ input' = scram'
    /\ pc' = "split"
    /\ UNCHANGED <<image, unscram, match, steps, run2, stripe1, stripe2, scr>>

\* main, line 162, into unshred up to the while loop
Enter ==
    /\ pc = "split"
    /\ LET e == unshred_enter(scram)
       IN  /\ pc' = e.pc
           /\ unscram' = e.unscram
           /\ scram' = e.scram
    /\ UNCHANGED <<image, input, match, steps, run2, stripe1, stripe2, scr>>

\* one iteration of the while loop of unshred
Step ==
    /\ pc = "loop"
    /\ DOMAIN scram # {}
    /\ \E m \in best_match(unscram, scram) :
          LET b == unshred_body(unscram, scram, m)
          IN  /\ match' = m
              /\ unscram' = b.unscram
              /\ scram' = b.scram
    /\ steps' = steps + 1
    /\ UNCHANGED <<pc, image, input, run2, stripe1, stripe2, scr>>

\* the while loop ends and unshred returns the deque
Return ==
    /\ pc = "loop"
    /\ DOMAIN scram = {}
    /\ pc' = "done"
    /\ UNCHANGED <<image, input, scram, unscram, match, steps, run2, stripe1, stripe2, scr>>

Next == Split \/ Enter \/ Step \/ Return

Spec == Init /\ [][Next]_vars

\* main() on the images whose width is a multiple of shred_width
InitWhole == InitOn(ShreddedImages \cup EmptyImages)

SpecWhole == InitWhole /\ [][Next]_vars

\* ------------------------------------------- unshred called a second time
\* the same input handed to unshred once more, after the first call is over
Again ==
    /\ pc \in {"done", "error"}
    /\ run2.pc = "idle"
    /\ run2' = [pc |-> "split", scram |-> input, unscram |-> <<>>]
    /\ UNCHANGED <<pc, image, input, scram, unscram, match, steps, stripe1, stripe2, scr>>

Enter2 ==
    /\ run2.pc = "split"
    /\ run2' = unshred_enter(run2.scram)
    /\ UNCHANGED <<pc, image, input, scram, unscram, match, steps, stripe1, stripe2, scr>>

Step2 ==
    /\ run2.pc = "loop"
    /\ DOMAIN run2.scram # {}
    /\ \E m \in best_match(run2.unscram, run2.scram) :
          LET b == unshred_body(run2.unscram, run2.scram, m)
          IN  run2' = [run2 EXCEPT !.unscram = b.unscram, !.scram = b.scram]
    /\ UNCHANGED <<pc, image, input, scram, unscram, match, steps, stripe1, stripe2, scr>>

Return2 ==
    /\ run2.pc = "loop"
    /\ DOMAIN run2.scram = {}
    /\ run2' = [run2 EXCEPT !.pc = "done"]
    /\ UNCHANGED <<pc, image, input, scram, unscram, match, steps, stripe1, stripe2, scr>>

NextTwoRuns == Split \/ Enter \/ Step \/ Return \/ Again \/ Enter2 \/ Step2 \/ Return2

SpecTwoRuns == Init /\ [][NextTwoRuns]_vars

\* ------------------------------------------------- score called directly
InitScore ==
    /\ pc = "score"
    /\ image = MakeImage(<<>>, 0, 0)
    /\ input = <<>>
    /\ scram = <<>>
    /\ unscram = <<>>
    /\ match = <<>>
    /\ steps = 0
    /\ run2 = Idle
    /\ stripe1 \in Stripes
    /\ stripe2 \in Stripes
    /\ scr = NoCall

\* scr = score(stripe1, stripe2); the function has no raise statement
ScoreCall ==
    /\ pc = "score"
    /\ scr.kind = "none"
    /\ scr' = [kind |-> "value", value |-> score(stripe1, stripe2)]
    /\ UNCHANGED <<pc, image, input, scram, unscram, match, steps, run2, stripe1, stripe2>>

NextScore == ScoreCall

SpecScore == InitScore /\ [][NextScore]_vars

\* ================================================================ claims
\* the number of Shreds handed to unshred
N == Cardinality(DOMAIN input)

Placed == {unscram[i] : i \in 1..Len(unscram)}

Remaining == {scram[k] : k \in DOMAIN scram}

\* the ids of a deque of Shreds, left to right
Ids(un) == [i \in 1..Len(un) |-> un[i].id]

\* C1: from seeding on, scram and unscram partition the input Shred set (every
\* input Shred is in exactly one of them, and at most once in unscram); when
\* unshred returns, scram is empty and unscram holds every input Shred once.
C1_Partition ==
    pc \in {"loop", "done"} =>
        /\ Placed \cup Remaining = {input[k] : k \in DOMAIN input}
        /\ Placed \cap Remaining = {}
        /\ \A i, j \in 1..Len(unscram) : unscram[i] = unscram[j] => i = j
        /\ Len(unscram) + Cardinality(DOMAIN scram) = N
        /\ \A k \in DOMAIN scram : scram[k] = input[k]
        /\ pc = "done" => DOMAIN scram = {} /\ Len(unscram) = N

C1_Witness == pc = "done" /\ Len(unscram) = 3 /\ Ids(unscram) # <<0, 32, 64>>

\* the two candidate scores of a remaining Shred r, as the claim states them
CandLeft(r) == score(unscram[1].left_stripe, scram[r].right_stripe)

CandRight(r) == score(unscram[Len(unscram)].right_stripe, scram[r].left_stripe)

Cand(m) == IF m[2] = "left" THEN CandLeft(m[1]) ELSE CandRight(m[1])

\* C2: every iteration of the loop selects a (remaining key, side) pair whose
\* score no candidate of either side on any remaining Shred undercuts.
C2_GlobalMinimum ==
    [][steps' = steps + 1 =>
          /\ match'[1] \in DOMAIN scram
          /\ match'[2] \in {"left", "right"}
          /\ \A r \in DOMAIN scram :
                Cand(match') <= CandLeft(r) /\ Cand(match') <= CandRight(r)]_vars

\* a left attachment was chosen although every right candidate scored higher
C2_Witness ==
    /\ steps >= 1
    /\ match[2] = "left"
    /\ Len(unscram) = 2
    /\ DOMAIN scram # {}
    /\ score(unscram[1].right_stripe, unscram[2].left_stripe)
         < score(unscram[2].right_stripe, unscram[1].left_stripe)

\* C3: for N >= 1 Shreds unshred never fails, can always go on until it has
\* returned, and has run steps + |scram| = N - 1 iterations-to-go at every
\* point of the loop, so that it returns after exactly N - 1 iterations; for
\* N = 1 the loop is skipped and the single Shred is returned.
C3_Terminates ==
    /\ pc = "loop" => steps + Cardinality(DOMAIN scram) = N - 1
    /\ pc = "done" => steps = N - 1 /\ DOMAIN scram = {}
    /\ (pc = "done" /\ N = 1) => steps = 0 /\ unscram = <<input[0]>>
    /\ (N >= 1 /\ pc # "done") => pc # "error" /\ ENABLED Next

C3_Witness == pc = "done" /\ steps = 3 /\ N = 4

\* C4: unshred on a dict of no Shreds ends in an error raised before anything
\* is placed; it never returns a deque.
C4_EmptyInputFails ==
    (N = 0 /\ pc \notin {"open", "split"}) =>
        pc = "error" /\ unscram = <<>> /\ steps = 0

C4_Witness == pc = "error" /\ N = 0

\* C5: split makes ceil(Wtotal / W) Shreds keyed 0, W, 2W, ... whose x-ranges
\* tile [0, Wtotal): each is W wide, except a last one of width Wtotal mod W
\* when W does not divide Wtotal, and none extends past Wtotal.
C5_SplitTiles ==
    (pc = "split" /\ image.size[1] > 0) =>
        LET Wtotal == image.size[1]
            W == shred_width
            count == (Wtotal + W - 1) \div W
        IN  /\ DOMAIN scram = {W * i : i \in 0..(count - 1)}
            /\ \A x \in DOMAIN scram :
                  /\ scram[x].width = (IF x + W <= Wtotal THEN W ELSE Wtotal % W)
                  /\ x + scram[x].width <= Wtotal

\* C6: two calls of unshred on the same input return the same order.
C6_Deterministic ==
    (pc = "done" /\ run2.pc = "done") => Ids(unscram) = Ids(run2.unscram)

\* the source columns of a stripe of Shred s, row y (list index), channel c
ChannelSum(s, first, y, c) ==
    SumTo([n \in 1..num_pixels |-> Px(s.image, first + n - 1, y - 1)[c]], num_pixels)

\* C7: k times every R, G, B value of both stripes of every Shred is the sum
\* of that channel over the k source pixels of the row (columns 0..k-1 for
\* the left stripe, W-k..W-1 for the right one): the mean is not truncated.
C7_ExactMean ==
    pc = "split" =>
        \A x \in DOMAIN scram : \A y \in 1..scram[x].height : \A c \in 1..3 :
            /\ num_pixels * scram[x].left_stripe[y][c] = ChannelSum(scram[x], 0, y, c)
            /\ num_pixels * scram[x].right_stripe[y][c]
                 = ChannelSum(scram[x], scram[x].width - num_pixels, y, c)

\* C8: score on two stripes of unequal length ends in an error, not a number.
C8_UnequalLengthsRejected ==
    (scr.kind # "none" /\ Len(stripe1) # Len(stripe2)) => scr.kind = "error"

\* the score of the right edge of Shred p against the left edge of Shred q,
\* for all input keys p, q
Pairs ==
    [p \in DOMAIN input, q \in DOMAIN input |->
        score(input[p].right_stripe, input[q].left_stripe)]

RECURSIVE Perms(_)
\* the orders of the elements of S
Perms(S) ==
    IF S = {} THEN {<<>>}
    ELSE UNION {{<<x>> \o o : o \in Perms(S \ {x})} : x \in S}

\* the orders of 1..n, for every number n of Shreds
PositionOrders == [n \in 0..MaxShreds |-> Perms(1..n)]

\* the keys of dict d in ascending order
KeySeq(d) ==
    [i \in 1..Cardinality(DOMAIN d) |->
        CHOOSE k \in DOMAIN d : Cardinality({j \in DOMAIN d : j < k}) = i - 1]

\* in order o of the n input keys every true-neighbour pair scores strictly
\* lower than every pair of distinct Shreds that are not neighbours; P[p, q]
\* is the score of the pair (p, q)
NeighboursScoreLowest(o, n, P) ==
    \A i \in 1..(n - 1) : \A a, b \in 1..n :
        (a # b /\ b # a + 1) => P[o[i], o[i + 1]] < P[o[a], o[b]]

\* C9: when the input Shreds are a permutation of an order in which every
\* true-neighbour pair scores strictly lower than every other pair, unshred
\* returns that order, whichever Shred has key 0 and seeds the deque.
C9_RoundTrip ==
    pc = "done" =>
        LET n   == N
            ks  == KeySeq(input)
            ids == Ids(unscram)
            P   == Pairs
        IN  /\ P \in [(DOMAIN input) \X (DOMAIN input) -> Nat]
            /\ \A p \in PositionOrders[n] :
                  LET o == [i \in 1..n |-> ks[p[i]]]
                  IN  NeighboursScoreLowest(o, n, P) => ids = o

C9_Witness ==
    /\ pc = "done"
    /\ N = 4
    /\ unscram[1].id # 0
    /\ unscram[4].id # 0
    /\ NeighboursScoreLowest(Ids(unscram), 4, Pairs)

\* C10: an iteration takes the winning Shred, and only it, out of scram, and
\* puts it in front of unscram (side left) or behind it (side right), leaving
\* the Shreds placed before as they were; no other step touches either.
C10_Frame ==
    [][/\ steps' = steps + 1 =>
            /\ match'[1] \in DOMAIN scram
            /\ scram' = Del(scram, match'[1])
            /\ match'[2] = "left" => unscram' = <<scram[match'[1]]>> \o unscram
            /\ match'[2] = "right" => unscram' = Append(unscram, scram[match'[1]])
            /\ match'[2] \in {"left", "right"}
       /\ (steps' = steps /\ pc \in {"loop", "done"}) =>
            unscram' = unscram /\ scram' = scram]_vars

C10_Witness ==
    /\ steps = 3
    /\ match = <<96, "left">>
    /\ Ids(unscram) = <<96, 64, 0, 32>>

====
